---------------------------- MODULE Spec2Model ----------------------------
(***************************************************************************)
(* A model of postcss-modular-type (src/src/index.ts): the plugin creator  *)
(* that merges its options into the module-level defaultConfig, builds the *)
(* stepsMap of fluid type-scale custom properties, and returns the Rule    *)
(* and Declaration handlers that apply the map to a document.              *)
(*                                                                         *)
(* JavaScript strings that the code concatenates, searches or tokenizes    *)
(* are sequences of one-character strings.  JavaScript numbers are exact   *)
(* rationals [n, d] extended with NaN and +/-Infinity; the inputs explored *)
(* keep every numerator and denominator inside TLC's 32-bit integers.      *)
(***************************************************************************)
EXTENDS Integers, Sequences, FiniteSets, TLC

(***************************************************************************)
(* Numbers                                                                 *)
(***************************************************************************)
Abs(x) == IF x < 0 THEN -x ELSE x

RECURSIVE Gcd(_, _)
Gcd(a, b) == IF b = 0 THEN a ELSE Gcd(b, a % b)

NaN == [k |-> "nan"]
Inf(s) == [k |-> "inf", s |-> s]

\* the finite number n/d in lowest terms, d > 0
Rat(n, d) ==
    LET g == Gcd(Abs(n), Abs(d))
        s == IF d < 0 THEN -1 ELSE 1
    IN  [k |-> "fin", n |-> s * (n \div g), d |-> s * (d \div g)]

Num(i) == [k |-> "fin", n |-> i, d |-> 1]

Sign(a) == IF a.k = "inf" THEN a.s ELSE IF a.n < 0 THEN -1 ELSE IF a.n > 0 THEN 1 ELSE 0

\* a * b
Mul(a, b) ==
    IF a.k = "nan" \/ b.k = "nan" THEN NaN
    ELSE IF a.k = "inf" \/ b.k = "inf"
         THEN IF Sign(a) * Sign(b) = 0 THEN NaN ELSE Inf(Sign(a) * Sign(b))
    ELSE LET g1 == Gcd(Abs(a.n), b.d)
             g2 == Gcd(Abs(b.n), a.d)
         IN  Rat((a.n \div g1) * (b.n \div g2), (a.d \div g2) * (b.d \div g1))

\* a - b
Sub(a, b) ==
    IF a.k = "nan" \/ b.k = "nan" THEN NaN
    ELSE IF a.k = "inf"
         THEN IF b.k = "inf" /\ b.s = a.s THEN NaN ELSE a
    ELSE IF b.k = "inf" THEN Inf(-b.s)
    ELSE LET g == Gcd(a.d, b.d)
             l == (a.d \div g) * b.d
         IN  Rat(a.n * (l \div a.d) - b.n * (l \div b.d), l)

\* a / b for finite a and b; x / 0 is NaN for x = 0 and +/-Infinity otherwise
Div(a, b) ==
    IF b.n = 0
    THEN IF a.n = 0 THEN NaN ELSE Inf(Sign(a))
    ELSE Mul(a, Rat(b.d, b.n))

RECURSIVE IntPow(_, _)
IntPow(b, e) == IF e = 0 THEN 1 ELSE b * IntPow(b, e - 1)

\* Math.pow(r, p) for a positive finite r and an integer p
Pow(r, p) ==
    IF p >= 0 THEN Rat(IntPow(r.n, p), IntPow(r.d, p))
    ELSE Rat(IntPow(r.d, -p), IntPow(r.n, -p))

(***************************************************************************)
(* Strings                                                                 *)
(***************************************************************************)
Digit(i) == <<"0", "1", "2", "3", "4", "5", "6", "7", "8", "9">>[i + 1]

RECURSIVE NatStr(_)
NatStr(n) == IF n < 10 THEN <<Digit(n)>> ELSE NatStr(n \div 10) \o <<Digit(n % 10)>>

\* `${i}` for an integer i
IntStr(i) == IF i < 0 THEN <<"-">> \o NatStr(-i) ELSE NatStr(i)

\* n written with exactly w digits, zero-padded on the left
RECURSIVE Pad(_, _)
Pad(n, w) == IF w = 0 THEN <<>> ELSE Pad(n \div 10, w - 1) \o <<Digit(n % 10)>>

\* floor(n * 10^f / d + 1/2) for 0 <= n, 0 < d, by long division
RECURSIVE Scaled(_, _, _, _)
Scaled(q, r, d, f) ==
    IF f = 0 THEN (IF 2 * r >= d THEN q + 1 ELSE q)
    ELSE Scaled(q * 10 + (r * 10) \div d, (r * 10) % d, d, f - 1)

\* Number.prototype.toFixed
ToFixed(x, f) ==
    IF x.k = "nan" THEN <<"N", "a", "N">>
    ELSE IF x.k = "inf"
         THEN (IF x.s < 0 THEN <<"-">> ELSE <<>>)
              \o <<"I", "n", "f", "i", "n", "i", "t", "y">>
    ELSE LET a == Abs(x.n)
             m == Scaled(a \div x.d, a % x.d, x.d, f)
             p == IntPow(10, f)
         IN  (IF x.n < 0 THEN <<"-">> ELSE <<>>)
             \o NatStr(m \div p)
             \o (IF f = 0 THEN <<>> ELSE <<".">> \o Pad(m % p, f))

\* String.prototype.includes
Includes(s, t) ==
    \E i \in 0..(Len(s) - Len(t)) : SubSeq(s, i + 1, i + Len(t)) = t


(***************************************************************************)
(* Bounds of the explored inputs                                           *)
(***************************************************************************)
\* largest minStep / maxStep an invocation passes
MaxStep == 2

(***************************************************************************)
(* Configuration                                                           *)
(***************************************************************************)
FontSizePrefix == <<"f", "o", "n", "t", "-", "s", "i", "z", "e", "-">>
DefaultDirective == "postcss-modular-type-generate"
DefaultSuffixValues ==
    << <<"x", "s">>, <<"s", "m">>, <<"b", "a", "s", "e">>, <<"m", "d">>,
       <<"l", "g">>, <<"x", "l">>, <<"x", "x", "l">>, <<"x", "x", "x", "l">> >>

\* the module-level defaultConfig object as written in the source
DefaultConfigInit ==
    [ minScreenWidth |-> Num(320), maxScreenWidth |-> Num(1536),
      minFontSize |-> Num(16), maxFontSize |-> Num(20),
      minRatio |-> Rat(12, 10), maxRatio |-> Rat(1333, 1000),
      minStep |-> 2, maxStep |-> 5, precision |-> 2,
      prefix |-> FontSizePrefix, rootFontSize |-> Num(16),
      suffixType |-> "numbered", suffixValues |-> DefaultSuffixValues,
      unit |-> "rem", replaceInline |-> FALSE,
      generatorDirective |-> DefaultDirective ]

\* Object.assign(target, opts): opts's own properties overwrite target's
ObjectAssign(target, opts) ==
    [f \in DOMAIN target |-> IF f \in DOMAIN opts THEN opts[f] ELSE target[f]]

UnitStr(unit) == IF unit = "rem" THEN <<"r", "e", "m">> ELSE <<"p", "x">>

(***************************************************************************)
(* stepsMap: a JavaScript Map, a sequence of <<key, value>> in insertion   *)
(* order                                                                   *)
(***************************************************************************)
MapHas(m, key) == \E i \in 1..Len(m) : m[i][1] = key

\* Map.prototype.set: a present key keeps its place and takes the new value
MapSet(m, key, value) ==
    IF MapHas(m, key)
    THEN [i \in 1..Len(m) |-> IF m[i][1] = key THEN <<key, value>> ELSE m[i]]
    ELSE Append(m, <<key, value>>)

\* Map.prototype.get: [def |-> FALSE] stands for undefined
MapGet(m, key) ==
    IF MapHas(m, key)
    THEN [def |-> TRUE, val |-> m[CHOOSE i \in 1..Len(m) : m[i][1] = key][2]]
    ELSE [def |-> FALSE]

\* JavaScript truthiness of the result of a get
Truthy(r) == r.def /\ r.val # <<>>

(***************************************************************************)
(* The plugin creator's computation                                        *)
(***************************************************************************)
\* BaseIndex taken to be the number of steps below the base
BaseIndexMinStep(c) == c.minStep

BaseIndex(c) == c.maxStep - c.minStep - 1

Power(c, step) == step - BaseIndex(c)

\* InsufficientSuffixes with < for <=
InsufficientSuffixesStrict(c) ==
    c.suffixType = "values" /\ Len(c.suffixValues) < c.maxStep + c.minStep

\* the condition of the insufficient-suffixes throw
InsufficientSuffixes(c) ==
    c.suffixType = "values" /\ Len(c.suffixValues) <= c.maxStep + c.minStep

ToRem(c, pxValue) == Div(pxValue, c.rootFontSize)

\* the four inputs after the unit === "rem" conversion
Converted(c) ==
    IF c.unit = "rem"
    THEN [ minScreenWidth |-> ToRem(c, c.minScreenWidth),
           maxScreenWidth |-> ToRem(c, c.maxScreenWidth),
           minFontSize |-> ToRem(c, c.minFontSize),
           maxFontSize |-> ToRem(c, c.maxFontSize) ]
    ELSE [ minScreenWidth |-> c.minScreenWidth,
           maxScreenWidth |-> c.maxScreenWidth,
           minFontSize |-> c.minFontSize,
           maxFontSize |-> c.maxFontSize ]

\* suffixValues[step]; an index past the end reads undefined
SuffixAt(c, step) ==
    IF step + 1 <= Len(c.suffixValues)
    THEN c.suffixValues[step + 1]
    ELSE <<"u", "n", "d", "e", "f", "i", "n", "e", "d">>

StepKey(c, step) ==
    IF c.suffixType = "values"
    THEN <<"-", "-">> \o c.prefix \o SuffixAt(c, step)
    ELSE <<"-", "-">> \o c.prefix \o IntStr(Power(c, step))

StepValue(c, step) ==
    LET v == Converted(c)
        power == Power(c, step)
        fsMinSize == Mul(v.minFontSize, Pow(c.minRatio, power))
        fsMaxSize == Mul(v.maxFontSize, Pow(c.maxRatio, power))
        slope == Div(Sub(fsMaxSize, fsMinSize), Sub(v.maxScreenWidth, v.minScreenWidth))
        yIntersect == ToFixed(Sub(fsMinSize, Mul(slope, v.minScreenWidth)), c.precision)
        slopeVw == ToFixed(Mul(slope, Num(100)), c.precision)
        fsMinFinal == ToFixed(fsMinSize, c.precision) \o UnitStr(c.unit)
        fsMaxFinal == ToFixed(fsMaxSize, c.precision) \o UnitStr(c.unit)
    IN  <<"c", "l", "a", "m", "p", "(">> \o fsMinFinal \o <<",", " ", " ">> \o slopeVw
        \o <<"v", "w", " ", "+", " ">> \o yIntersect \o UnitStr(c.unit)
        \o <<" ", ",", " ">> \o fsMaxFinal \o <<")">>

\* the for loop from `step` on, m being the map built so far
RECURSIVE StepsLoop(_, _, _)
StepsLoop(c, step, m) ==
    IF step <= c.maxStep + c.minStep
    THEN StepsLoop(c, step + 1, MapSet(m, StepKey(c, step), StepValue(c, step)))
    ELSE m

\* the stepsMap a completed invocation with resolved options c holds
BuildStepsMap(c) == StepsLoop(c, 0, <<>>)


(***************************************************************************)
(* valueParser(value).walk: the word nodes of a value, in walk order       *)
(***************************************************************************)
\* Scans s from index i.  cur is the token being read, depth the number of
\* open functions, acc the word nodes found so far.  Spaces and the dividers
\* , / : end a token; "(" makes the token read so far a function's name, not
\* a word; ")" closes a function when one is open and is a word character
\* otherwise.  walk visits a function's nodes right after the function, so
\* the walk order of the words is their order in the text.
RECURSIVE ScanWords(_, _, _, _, _)
ScanWords(s, i, cur, depth, acc) ==
    LET flush == IF cur = <<>> THEN acc ELSE Append(acc, cur)
    IN  IF i > Len(s) THEN flush
        ELSE IF s[i] = "(" THEN ScanWords(s, i + 1, <<>>, depth + 1, acc)
        ELSE IF s[i] = ")" /\ depth > 0 THEN ScanWords(s, i + 1, <<>>, depth - 1, flush)
        ELSE IF s[i] \in {" ", ",", "/", ":"} THEN ScanWords(s, i + 1, <<>>, depth, flush)
        ELSE ScanWords(s, i + 1, Append(cur, s[i]), depth, acc)

Words(value) == ScanWords(value, 1, <<>>, 0, <<>>)

(***************************************************************************)
(* Documents: the root's children are rules and comments, a rule's children *)
(* declarations and comments                                               *)
(***************************************************************************)
Comment(text) == [type |-> "comment", text |-> text]
Decl(prop, value) == [type |-> "decl", prop |-> prop, value |-> value]
RuleNode(nodes) == [type |-> "rule", nodes |-> nodes]

VarStep1 == <<"v", "a", "r", "(", "-", "-", "f", "o", "n", "t", "-", "s", "i", "z", "e", "-", "1", ")">>
RatioOfSteps == <<"-", "-", "f", "o", "n", "t", "-", "s", "i", "z", "e", "-", "3", "/", "-", "-", "f", "o", "n", "t", "-", "s", "i", "z", "e", "-", "1">>
MixedTokens == <<"x", " ", "-", "-", "a", " ", "v", "a", "r", "(", "-", "-", "f", "o", "n", "t", "-", "s", "i", "z", "e", "-", "s", "m", ")", " ", "-", "-", "1">>
NearMiss == <<"f", "o", "n", "t", "-", "s", "i", "z", "e", "-", "1", " ", "-", "-", "f", "o", "n", "t", "-", "s", "i", "z", "e", "-", "9", "9">>
Red == <<"r", "e", "d">>

DocDirectives ==
    << Comment(DefaultDirective),
       RuleNode(<< Comment(DefaultDirective), Comment(DefaultDirective),
                   Decl(<<"c", "o", "l", "o", "r">>, VarStep1), Comment("gen") >>) >>
DocValues ==
    << RuleNode(<< Decl(<<"f", "o", "n", "t">>, RatioOfSteps), Decl(<<"c", "o", "l", "o", "r">>, Red) >>),
       Comment("gen"),
       RuleNode(<< Comment("gen"), Decl(<<"w", "i", "d", "t", "h">>, MixedTokens), Comment("note") >>) >>
DocPlain ==
    << RuleNode(<< Decl(<<"s", "i", "z", "e">>, NearMiss), Comment("note") >>) >>

Docs == {DocDirectives, DocValues, DocPlain}

(***************************************************************************)
(* Options passed to the plugin creator                                    *)
(***************************************************************************)
EmptyOpts == [f \in {} |-> TRUE]

\* every invocation passes maxRatio: exact powers of the default 1.333 leave
\* the 32-bit integers
Ratio == [maxRatio |-> Rat(16, 10)]

StepOpts ==
    {EmptyOpts}
    \cup {[minStep |-> a] : a \in 0..MaxStep}
    \cup {[maxStep |-> b] : b \in 0..MaxStep}
    \cup {[minStep |-> a, maxStep |-> b] : a \in 0..MaxStep, b \in 0..MaxStep}

SuffixLists ==
    { << <<"a">>, <<"b">>, <<"c">> >>,
      << <<"a">>, <<"a">>, <<"b">> >>,
      DefaultSuffixValues }

SuffixOpts ==
    {[suffixType |-> "numbered"], [suffixType |-> "values"]}
    \cup {[suffixType |-> "values", suffixValues |-> l] : l \in SuffixLists}

ModeOpts == {[replaceInline |-> b] : b \in BOOLEAN}

FormatOpts ==
    { [ unit |-> "rem", precision |-> 2, prefix |-> FontSizePrefix,
        generatorDirective |-> DefaultDirective, maxScreenWidth |-> Num(1536) ],
      [ unit |-> "px", precision |-> 0, prefix |-> <<>>,
        generatorDirective |-> "gen", maxScreenWidth |-> Num(1536) ],
      [ unit |-> "rem", precision |-> 2, prefix |-> FontSizePrefix,
        generatorDirective |-> DefaultDirective, maxScreenWidth |-> Num(320) ] }

Opts == {o @@ Ratio : o \in StepOpts \cup SuffixOpts \cup ModeOpts \cup FormatOpts}

(***************************************************************************)
(* State                                                                   *)
(***************************************************************************)
VARIABLES
    defaultConfig,      \* the module-level defaultConfig object
    status,             \* "idle": no invocation yet; "threw": the last one threw;
                        \* "ready": it returned its handlers; "running": the host
                        \* is applying them to doc
    minStep, maxStep, prefix, suffixType, suffixValues,
    replaceInline, generatorDirective,
                        \* the last invocation's destructured locals
    stepsMap,           \* the last invocation's stepsMap
    doc,                \* the document being processed
    visited,            \* the root children the Rule handler has run on
    last                \* the handler call made last, its node, and whether the
                        \* call before it was the same handler on the same node

locals == <<minStep, maxStep, prefix, suffixType, suffixValues,
            replaceInline, generatorDirective>>
vars == <<defaultConfig, status, locals, stepsMap, doc, visited, last>>

NoCall == [handler |-> "none", at |-> <<>>, again |-> FALSE]

\* the record of a call of handler h on the node at path p
Call(h, p) == [handler |-> h, at |-> p, again |-> last.handler = h /\ last.at = p]

Init ==
    /\ defaultConfig = DefaultConfigInit
    /\ status = "idle"
    /\ minStep = 0 /\ maxStep = 0 /\ prefix = <<>>
    /\ suffixType = "numbered" /\ suffixValues = <<>>
    /\ replaceInline = FALSE /\ generatorDirective = ""
    /\ stepsMap = <<>>
    /\ doc = <<>>
    /\ visited = {}
    /\ last = NoCall

(***************************************************************************)
(* The plugin creator                                                      *)
(***************************************************************************)
Plugin(opts) ==
    LET resolvedOptions == ObjectAssign(defaultConfig, opts)
    IN  /\ status # "running"
        /\ defaultConfig' = resolvedOptions
        /\ minStep' = resolvedOptions.minStep
        /\ maxStep' = resolvedOptions.maxStep
        /\ prefix' = resolvedOptions.prefix
        /\ suffixType' = resolvedOptions.suffixType
        /\ suffixValues' = resolvedOptions.suffixValues
        /\ replaceInline' = resolvedOptions.replaceInline
        /\ generatorDirective' = resolvedOptions.generatorDirective
        /\ IF InsufficientSuffixes(resolvedOptions)
           THEN status' = "threw" /\ stepsMap' = <<>>
           ELSE status' = "ready" /\ stepsMap' = BuildStepsMap(resolvedOptions)
        /\ doc' = <<>>
        /\ visited' = {}
        /\ last' = NoCall

(***************************************************************************)
(* The host: it hands a document to the handlers and ends the run once the *)
(* Rule handler has run on every rule                                      *)
(***************************************************************************)
RuleIndexes(d) == {i \in 1..Len(d) : d[i].type = "rule"}

Process(d) ==
    /\ status = "ready"
    /\ status' = "running"
    /\ doc' = d
    /\ visited' = {}
    /\ last' = NoCall
    /\ UNCHANGED <<defaultConfig, locals, stepsMap>>

End ==
    /\ status = "running"
    /\ visited = RuleIndexes(doc)
    /\ status' = "ready"
    /\ doc' = <<>>
    /\ visited' = {}
    /\ last' = NoCall
    /\ UNCHANGED <<defaultConfig, locals, stepsMap>>

(***************************************************************************)
(* The Rule handler                                                        *)
(***************************************************************************)
\* one new Declaration per entry of stepsMap, in the map's order
FontVars == [e \in 1..Len(stepsMap) |-> Decl(stepsMap[e][1], stepsMap[e][2])]

\* WalkComments that, after a replacement, goes on one child too far
RECURSIVE WalkCommentsSkipping(_, _)
WalkCommentsSkipping(nodes, i) ==
    IF i > Len(nodes) THEN nodes
    ELSE IF nodes[i].type = "comment" /\ nodes[i].text = generatorDirective
         THEN WalkCommentsSkipping(SubSeq(nodes, 1, i - 1) \o FontVars
                                       \o SubSeq(nodes, i + 1, Len(nodes)),
                                   i + Len(FontVars) + 1)
         ELSE WalkCommentsSkipping(nodes, i + 1)

\* rule.walkComments from child index i on: a comment whose text is the
\* directive is replaced by fontVars and the walk goes on after them
RECURSIVE WalkComments(_, _)
WalkComments(nodes, i) ==
    IF i > Len(nodes) THEN nodes
    ELSE IF nodes[i].type = "comment" /\ nodes[i].text = generatorDirective
         THEN WalkComments(SubSeq(nodes, 1, i - 1) \o FontVars
                               \o SubSeq(nodes, i + 1, Len(nodes)),
                           i + Len(FontVars))
         ELSE WalkComments(nodes, i + 1)

\* RuleResult without the replaceInline return
RuleResultAlways(nodes) == WalkComments(nodes, 1)

\* the children of a rule after the Rule handler
RuleResult(nodes) == IF replaceInline THEN nodes ELSE WalkComments(nodes, 1)

Rule(i) ==
    /\ status = "running"
    /\ i \in RuleIndexes(doc)
    /\ doc' = [doc EXCEPT ![i].nodes = RuleResult(@)]
    /\ visited' = visited \cup {i}
    /\ last' = Call("Rule", <<i>>)
    /\ UNCHANGED <<defaultConfig, status, locals, stepsMap>>

(***************************************************************************)
(* The Declaration handler                                                 *)
(***************************************************************************)
\* WalkWords that stops at the first word found in stepsMap
RECURSIVE WalkWordsFirst(_, _, _)
WalkWordsFirst(words, k, value) ==
    IF k > Len(words) THEN value
    ELSE LET found == MapGet(stepsMap, words[k])
         IN  IF Truthy(found) THEN found.val ELSE WalkWordsFirst(words, k + 1, value)

\* WalkWords that assigns the result of get without testing it
RECURSIVE WalkWordsUntested(_, _, _)
WalkWordsUntested(words, k, value) ==
    IF k > Len(words) THEN value
    ELSE LET found == MapGet(stepsMap, words[k])
         IN  WalkWordsUntested(words, k + 1,
                               IF found.def THEN found.val ELSE <<"u", "n", "d", "e", "f", "i", "n", "e", "d">>)

\* the callback of parsed.walk on the word nodes from index k on, value being
\* decl.value so far
RECURSIVE WalkWords(_, _, _)
WalkWords(words, k, value) ==
    IF k > Len(words) THEN value
    ELSE LET found == MapGet(stepsMap, words[k])
         IN  WalkWords(words, k + 1, IF Truthy(found) THEN found.val ELSE value)

\* decl.value after the Declaration handler
DeclarationResult(value) ==
    IF replaceInline /\ Includes(value, prefix)
    THEN WalkWords(Words(value), 1, value)
    ELSE value

DeclIndexes(nodes) == {j \in 1..Len(nodes) : nodes[j].type = "decl"}

Declaration(i, j) ==
    /\ status = "running"
    /\ i \in RuleIndexes(doc)
    /\ j \in DeclIndexes(doc[i].nodes)
    /\ doc' = [doc EXCEPT ![i].nodes[j].value = DeclarationResult(@)]
    /\ last' = Call("Declaration", <<i, j>>)
    /\ UNCHANGED <<defaultConfig, status, locals, stepsMap, visited>>

(***************************************************************************)
(* Specification                                                           *)
(***************************************************************************)
Next ==
    \/ \E opts \in Opts : Plugin(opts)
    \/ \E d \in Docs : Process(d)
    \/ End
    \/ \E i \in RuleIndexes(doc) : Rule(i)
    \/ \E i \in RuleIndexes(doc) : \E j \in DeclIndexes(doc[i].nodes) : Declaration(i, j)

Spec == Init /\ [][Next]_vars

(***************************************************************************)
(* Properties                                                              *)
(***************************************************************************)
\* the last invocation returned its handlers
Returned == status \in {"ready", "running"}

Steps == 0..(minStep + maxStep)

Keys == {stepsMap[e][1] : e \in 1..Len(stepsMap)}

\* the expression stepsMap pairs with key
ExpressionOf(key) == stepsMap[CHOOSE e \in 1..Len(stepsMap) : stepsMap[e][1] = key][2]

IsDirective(node) == node.type = "comment" /\ node.text = generatorDirective

\* C1: every invocation that does not throw leaves a mapping of exactly
\* minStep + maxStep + 1 entries.
C1_ExactlyNEntries ==
    Returned => Len(stepsMap) = minStep + maxStep + 1

\* C2: the outcome of an invocation is determined by its options merged over
\* the documented defaults alone: it throws or returns, and maps, as a fresh
\* copy of the defaults with the options assigned would.
C2_DeterminedByOptions ==
    [][\A o \in Opts :
          Plugin(o) =>
              LET c == ObjectAssign(DefaultConfigInit, o)
              IN  IF InsufficientSuffixes(c)
                  THEN status' = "threw"
                  ELSE status' = "ready" /\ stepsMap' = BuildStepsMap(c)]_vars

\* C3: of the steps of a returned invocation exactly one has power 0, exactly
\* minStep have a negative power and exactly maxStep a positive one.
C3_StepsBelowAndAbove ==
    Returned =>
        /\ Cardinality({s \in Steps : Power(defaultConfig, s) = 0}) = 1
        /\ Cardinality({s \in Steps : Power(defaultConfig, s) < 0}) = minStep
        /\ Cardinality({s \in Steps : Power(defaultConfig, s) > 0}) = maxStep

\* C4: an invocation throws exactly when suffixType is values and suffixValues
\* has at most minStep + maxStep elements, and one that throws has computed no
\* mapping entry and returned no handler (none has been handed a document).
C4_InsufficientSuffixesThrow ==
    status # "idle" =>
        /\ status = "threw" <=>
               (suffixType = "values" /\ Len(suffixValues) <= minStep + maxStep)
        /\ status = "threw" => stepsMap = <<>> /\ doc = <<>> /\ last = NoCall

\* an invocation threw with exactly minStep + maxStep suffixes
C4_Witness ==
    /\ status = "threw"
    /\ Len(suffixValues) = minStep + maxStep
    /\ Len(suffixValues) > 0

\* C5: the i-th entry of the mapping is the key and the expression computed
\* for step i, for i = 0..minStep+maxStep; with suffixType values its key is
\* "--" prefix suffixValues[i].
C5_EntriesInStepOrder ==
    Returned =>
        \A s \in Steps :
            /\ s + 1 <= Len(stepsMap)
            /\ stepsMap[s + 1] = <<StepKey(defaultConfig, s), StepValue(defaultConfig, s)>>
            /\ suffixType = "values" =>
                   stepsMap[s + 1][1] = <<"-", "-">> \o prefix \o suffixValues[s + 1]

\* C6: with suffixType numbered the mapping has one entry per step, the key of
\* step s is "--" prefix power with power = s - (maxStep - minStep - 1), and
\* the keys are pairwise distinct.
C6_NumberedKeys ==
    Returned /\ suffixType = "numbered" =>
        /\ Len(stepsMap) = minStep + maxStep + 1
        /\ \A s \in Steps :
               stepsMap[s + 1][1]
                   = <<"-", "-">> \o prefix \o IntStr(s - (maxStep - minStep - 1))
        /\ \A s, t \in Steps : s # t => stepsMap[s + 1][1] # stepsMap[t + 1][1]

\* a numbered mapping with a negative, a zero and a positive power
C6_Witness ==
    /\ Returned /\ suffixType = "numbered"
    /\ maxStep - minStep - 1 > 0
    /\ minStep + maxStep - (maxStep - minStep - 1) > 0
    /\ Len(stepsMap) = minStep + maxStep + 1

\* C7: with replaceInline the Rule handler changes nothing, whatever the
\* comments say; without it the Declaration handler changes nothing, whatever
\* the values hold.
C7_PoliciesExclusive ==
    [][/\ \A i \in RuleIndexes(doc) : Rule(i) /\ replaceInline => doc' = doc
       /\ \A i \in RuleIndexes(doc) : \A j \in DeclIndexes(doc[i].nodes) :
              Declaration(i, j) /\ ~replaceInline => doc' = doc]_vars

\* the Rule handler has run, with replaceInline, on a rule that holds a
\* comment whose text is the directive
C7_Witness ==
    /\ status = "running" /\ replaceInline
    /\ last.handler = "Rule"
    /\ \E k \in 1..Len(doc[last.at[1]].nodes) : IsDirective(doc[last.at[1]].nodes[k])

\* the children nodes with every directive comment replaced by one
\* declaration per mapping entry, in mapping order
RECURSIVE Expanded(_)
Expanded(nodes) ==
    IF nodes = <<>> THEN <<>>
    ELSE (IF IsDirective(Head(nodes))
          THEN [e \in 1..Len(stepsMap) |->
                   [type |-> "decl", prop |-> stepsMap[e][1], value |-> stepsMap[e][2]]]
          ELSE <<Head(nodes)>>)
         \o Expanded(Tail(nodes))

\* C8 as stated: once the Rule handler has run on every rule of the document,
\* no comment of the document has the directive as its text.
C8_EveryDirectiveReplaced ==
    status = "running" /\ ~replaceInline /\ visited = RuleIndexes(doc) =>
        /\ \A i \in 1..Len(doc) : ~IsDirective(doc[i])
        /\ \A i \in RuleIndexes(doc) :
               \A k \in 1..Len(doc[i].nodes) : ~IsDirective(doc[i].nodes[k])

\* C8, amended: without replaceInline the Rule handler replaces every
\* directive comment among the rule's children by the mapping's declarations
\* in mapping order, once (no directive comment is left in the rule), and
\* leaves the rule's other children and every other node of the document as
\* they were; a rule without a directive comment is unchanged.
C8_DirectiveExpansion ==
    [][\A i \in RuleIndexes(doc) :
          Rule(i) /\ ~replaceInline =>
              /\ Len(doc') = Len(doc)
              /\ \A k \in 1..Len(doc) : k # i => doc'[k] = doc[k]
              /\ doc'[i].nodes = Expanded(doc[i].nodes)
              /\ \A k \in 1..Len(doc'[i].nodes) : ~IsDirective(doc'[i].nodes[k])
              /\ (\A k \in 1..Len(doc[i].nodes) : ~IsDirective(doc[i].nodes[k]))
                     => doc' = doc]_vars

\* the Rule handler has expanded two directive comments of a rule that also
\* holds another comment and a declaration
C8_Witness ==
    /\ status = "running" /\ ~replaceInline
    /\ last.handler = "Rule"
    /\ LET nodes == doc[last.at[1]].nodes
           n == Len(stepsMap)
       IN  /\ Len(nodes) = 2 * n + 2
           /\ n >= 2
           /\ nodes[1].type = "decl" /\ nodes[1].prop = stepsMap[1][1]
           /\ nodes[n + 1].type = "decl" /\ nodes[n + 1].prop = stepsMap[1][1]
           /\ nodes[2 * n + 2].type = "comment"

\* C9: with replaceInline, on a declaration whose value contains prefix, the
\* value becomes the expression of the last word of the value that is a
\* mapping key, and stays as it is when no word is one.
C9_LastMatchWins ==
    [][\A i \in RuleIndexes(doc) : \A j \in DeclIndexes(doc[i].nodes) :
          LET value == doc[i].nodes[j].value
              words == Words(value)
              hits == {k \in 1..Len(words) : words[k] \in Keys}
          IN  Declaration(i, j) /\ replaceInline /\ Includes(value, prefix) =>
                  IF hits = {}
                  THEN doc' = doc
                  ELSE LET k == CHOOSE h \in hits : \A g \in hits : g <= h
                       IN  doc'[i].nodes[j].value = ExpressionOf(words[k])]_vars

\* the declaration font: --font-size-3/--font-size-1, both words keys with
\* different expressions, has taken the expression of --font-size-1
C9_Witness ==
    /\ status = "running" /\ replaceInline
    /\ last.handler = "Declaration"
    /\ LET d == doc[last.at[1]].nodes[last.at[2]]
           w == Words(RatioOfSteps)
       IN  /\ d.prop = <<"f", "o", "n", "t">>
           /\ w[1] \in Keys /\ w[2] \in Keys
           /\ ExpressionOf(w[1]) # ExpressionOf(w[2])
           /\ d.value = ExpressionOf(w[2])

\* C10: no word of a mapping expression is a mapping key (seen whenever the
\* handlers are handed a document), so the Declaration handler, run on a
\* declaration whose value is a mapping expression, changes nothing.
C10_ReplacementIdempotent ==
    [][/\ status = "ready" /\ status' = "running" =>
              \A e \in 1..Len(stepsMap) :
                  \A k \in 1..Len(Words(stepsMap[e][2])) :
                      Words(stepsMap[e][2])[k] \notin Keys
       /\ \A i \in RuleIndexes(doc) : \A j \in DeclIndexes(doc[i].nodes) :
              Declaration(i, j) /\ (\E e \in 1..Len(stepsMap) :
                                        doc[i].nodes[j].value = stepsMap[e][2])
                  => doc' = doc]_vars

\* the Declaration handler has run a second time on a declaration whose value
\* it had replaced by a mapping expression that contains prefix
C10_Witness ==
    /\ status = "running" /\ replaceInline
    /\ last.handler = "Declaration" /\ last.again
    /\ LET d == doc[last.at[1]].nodes[last.at[2]]
       IN  /\ \E e \in 1..Len(stepsMap) : d.value = stepsMap[e][2]
           /\ Includes(d.value, prefix)
           /\ Len(Words(d.value)) > 0
=============================================================================
